---------------------------- MODULE Spec2Model ----------------------------
(***************************************************************************)
(* Client-side PDF export of Sondagem-IA.                                  *)
(*                                                                         *)
(* Two handlers export a report to PDF:                                    *)
(*   "report"        handleDownloadReportPDF  (src/App.tsx)                *)
(*   "consolidated"  handleDownloadPDF        (src/components/             *)
(*                                             ConsolidatedStudentView.tsx)*)
(*                                                                         *)
(* Spec / FairSpec   the export handlers as the event loop runs them: one  *)
(*                   action per macrotask (the click up to the first       *)
(*                   await, the settle timer, the html2canvas promise).    *)
(* TetrisSpec        the "Tetris" pagination loop of the report export,    *)
(*                   one action per items.forEach callback, followed by    *)
(*                   the slicer applied to the paginated document.         *)
(*                                                                         *)
(* Lengths in mm are fractions over canvas.width: a value x stands for     *)
(* x / canvas.width mm, so the slicer's arithmetic is exact.               *)
(***************************************************************************)
EXTENDS Integers, Sequences, FiniteSets, TLC

\* ------------------------------------------------------------------ bounds
MaxExports == 2        \* handler invocations in one behaviour
MaxBlocks == 3         \* .pdf-item blocks in the staged report
MaxBoundaryBlocks == 3 \* blocks of a list that meets the page boundaries exactly
NumElems == 2           \* descendant elements of the live report
MaxNameLen == 3        \* characters of a student's name
MaxSliceHundreds == 40 \* captured heights of up to this many hundred px

\* ------------------------------------------------------- program constants
A4_HEIGHT_PX == 1123
PADDING_BOTTOM == 60
PAGE_CONTENT_HEIGHT == A4_HEIGHT_PX - PADDING_BOTTOM
TOP_PAD == 40          \* the literal added to remainingSpaceOnPage
pdfWidth == 210
pdfHeight == 297
scale == 2             \* html2canvas scale
WRAPPER_PAD == 32      \* p-8 of the scroll wrapper around the report card
CARD_PAD_SMALL == 32   \* p-8 of the report card
CARD_PAD_MD == 48      \* md:p-12 of the report card
CARD_BORDER == 1       \* border of the report card
CARD_MIN_HEIGHT == 500 \* min-h-[500px] of the report card
MD_MIN_WIDTH == 768    \* the md: breakpoint

Views == {"report", "consolidated"}

\* container.style.width / html2canvas width of each handler
StageWidth(v) == IF v = "report" THEN 794 ELSE 1200

\* ---------------------------------------------------------- input domains
\* Heights (px) the staged clone can have when it is captured.
ScrollHeights == {600, 1123, 3400, 11880}

\* offsetHeight of a .pdf-item, and the (marginTop, marginBottom) pairs:
\* none, and the mt-4 mb-2 of a second-level heading.
Heights == {200, 300, 900, 1030, 1100}
MarginPairs == {<<0, 0>>, <<16, 8>>}
ItemGeoms == [h : Heights, mt : {p[1] : p \in MarginPairs}, mb : {p[2] : p \in MarginPairs}]
Items == {g \in ItemGeoms : <<g.mt, g.mb>> \in MarginPairs}
\* offsetHeight of the '.p-6.border-b' header; 0 when the clone has none.
HeaderHeights == {0, 120}
\* Blocks without margins whose ends or starts meet a multiple of
\* PAGE_CONTENT_HEIGHT: 120 + 943 = 1063, 1063 + 40 + 1023 = 2 * 1063.
BoundaryHeights == {0, 943, 1023, 1063}
BoundaryItems == {[h |-> x, mt |-> 0, mb |-> 0] : x \in BoundaryHeights}
\* The window the export runs in: inner width and height (px).  The md:
\* classes of the report apply from MD_MIN_WIDTH on; min-h-screen is 100vh.
Viewports == {[w |-> 1280, vh |-> 900], [w |-> 390, vh |-> 844], [w |-> 700, vh |-> 1300]}
NoViewport == [w |-> 0, vh |-> 0]
Max2(a, b) == IF a >= b THEN a ELSE b

RECURSIVE SeqsUpTo(_, _)
SeqsUpTo(S, n) ==
  IF n = 0 THEN {<<>>}
  ELSE LET shorter == SeqsUpTo(S, n - 1)
       IN shorter \cup {Append(s, x) : s \in {t \in shorter : Len(t) = n - 1}, x \in S}

\* ------------------------------------------------------------------ slicer
\* while (heightLeft > 0) { addPage; addImage(..., -(imgHeight - heightLeft)); heightLeft -= pdfHeight }
\* pages: the upward shift of the image on each page added so far.
RECURSIVE SlicerLoop(_, _, _, _)
SlicerLoop(heightLeft, imgHeight, pageH, pages) ==
  IF heightLeft > 0
  THEN SlicerLoop(heightLeft - pageH, imgHeight, pageH,
                  Append(pages, imgHeight - heightLeft))
  ELSE pages

\* Mutant of Slicer: the loop written with heightLeft >= 0.
RECURSIVE SlicerLoopInclusive(_, _, _, _)
SlicerLoopInclusive(heightLeft, imgHeight, pageH, pages) ==
  IF heightLeft >= 0
  THEN SlicerLoopInclusive(heightLeft - pageH, imgHeight, pageH,
                           Append(pages, imgHeight - heightLeft))
  ELSE pages

SlicerInclusive(canvasHeight, canvasWidth) ==
  LET imgHeight == canvasHeight * pdfWidth
      pageH == pdfHeight * canvasWidth
  IN SlicerLoopInclusive(imgHeight - pageH, imgHeight, pageH, <<0>>)

\* imgHeight = canvas.height * pdfWidth / canvas.width; page 1 at position 0.
Slicer(canvasHeight, canvasWidth) ==
  LET imgHeight == canvasHeight * pdfWidth
      pageH == pdfHeight * canvasWidth
  IN SlicerLoop(imgHeight - pageH, imgHeight, pageH, <<0>>)

\* The slicer of handleDownloadPDF (ConsolidatedStudentView.tsx), translated
\* on its own: the loop while (heightLeft > 0).
RECURSIVE ConsolidatedSlicerLoop(_, _, _, _)
ConsolidatedSlicerLoop(heightLeft, imgHeight, pageH, pages) ==
  IF heightLeft > 0
  THEN ConsolidatedSlicerLoop(heightLeft - pageH, imgHeight, pageH,
                              Append(pages, imgHeight - heightLeft))
  ELSE pages

\* Variant of ConsolidatedSlicer: each added page shows the image at the
\* offset of the page before.
ConsolidatedSlicerStale(canvasHeight, canvasWidth) ==
  LET p == Slicer(canvasHeight, canvasWidth)
  IN [k \in 1..Len(p) |-> IF k = 1 THEN 0 ELSE p[k - 1]]

ConsolidatedSlicer(canvasHeight, canvasWidth) ==
  LET imgHeight == canvasHeight * pdfWidth
      pageH == pdfHeight * canvasWidth
  IN ConsolidatedSlicerLoop(imgHeight - pageH, imgHeight, pageH, <<0>>)

\* Variant of SlicerOf: both handlers loop while heightLeft >= 0.
SlicerOfInclusive(v, canvasHeight, canvasWidth) ==
  IF v \in Views THEN SlicerInclusive(canvasHeight, canvasWidth) ELSE <<>>

\* The slicer of the handler of view v.
SlicerOf(v, canvasHeight, canvasWidth) ==
  IF v = "report" THEN Slicer(canvasHeight, canvasWidth)
  ELSE ConsolidatedSlicer(canvasHeight, canvasWidth)

\* ------------------------------------------------------- Tetris pagination
\* Mutant of TetrisItem: the push branch assigns the cursor instead of adding
\* to it (currentY = pushDownAmount + totalItemHeight).
TetrisItemAssign(y, g) ==
  LET totalItemHeight == g.h + g.mt + g.mb
      endPosition == y + totalItemHeight
      currentPageIndex == y \div PAGE_CONTENT_HEIGHT
      endPageIndex == endPosition \div PAGE_CONTENT_HEIGHT
      remainingSpaceOnPage == ((currentPageIndex + 1) * PAGE_CONTENT_HEIGHT) - y
      pushDownAmount == remainingSpaceOnPage + TOP_PAD
  IN IF currentPageIndex # endPageIndex
     THEN [pushed |-> TRUE, push |-> pushDownAmount,
           marginTop |-> g.mt + pushDownAmount,
           currentY |-> pushDownAmount + totalItemHeight]
     ELSE [pushed |-> FALSE, push |-> 0,
           marginTop |-> g.mt,
           currentY |-> y + totalItemHeight]

\* Mutant of TetrisItem: the push stops at the boundary, without the top pad.
TetrisItemNoPad(y, g) ==
  LET totalItemHeight == g.h + g.mt + g.mb
      endPosition == y + totalItemHeight
      currentPageIndex == y \div PAGE_CONTENT_HEIGHT
      endPageIndex == endPosition \div PAGE_CONTENT_HEIGHT
      remainingSpaceOnPage == ((currentPageIndex + 1) * PAGE_CONTENT_HEIGHT) - y
      pushDownAmount == remainingSpaceOnPage
  IN IF currentPageIndex # endPageIndex
     THEN [pushed |-> TRUE, push |-> pushDownAmount,
           marginTop |-> g.mt + pushDownAmount,
           currentY |-> y + pushDownAmount + totalItemHeight]
     ELSE [pushed |-> FALSE, push |-> 0,
           marginTop |-> g.mt,
           currentY |-> y + totalItemHeight]

\* Variant of TetrisItem: a block that fits advances the cursor by its height alone.
TetrisItemFitHeightOnly(y, g) ==
  LET totalItemHeight == g.h + g.mt + g.mb
      endPosition == y + totalItemHeight
      currentPageIndex == y \div PAGE_CONTENT_HEIGHT
      endPageIndex == endPosition \div PAGE_CONTENT_HEIGHT
      remainingSpaceOnPage == ((currentPageIndex + 1) * PAGE_CONTENT_HEIGHT) - y
      pushDownAmount == remainingSpaceOnPage + TOP_PAD
  IN IF currentPageIndex # endPageIndex
     THEN [pushed |-> TRUE, push |-> pushDownAmount,
           marginTop |-> g.mt + pushDownAmount,
           currentY |-> y + pushDownAmount + totalItemHeight]
     ELSE [pushed |-> FALSE, push |-> 0,
           marginTop |-> g.mt,
           currentY |-> y + g.h]

\* Variant of TetrisItem: the push replaces the measured margin instead of adding to it.
TetrisItemMarginOverwrite(y, g) ==
  LET totalItemHeight == g.h + g.mt + g.mb
      endPosition == y + totalItemHeight
      currentPageIndex == y \div PAGE_CONTENT_HEIGHT
      endPageIndex == endPosition \div PAGE_CONTENT_HEIGHT
      remainingSpaceOnPage == ((currentPageIndex + 1) * PAGE_CONTENT_HEIGHT) - y
      pushDownAmount == remainingSpaceOnPage + TOP_PAD
  IN IF currentPageIndex # endPageIndex
     THEN [pushed |-> TRUE, push |-> pushDownAmount,
           marginTop |-> pushDownAmount,
           currentY |-> y + pushDownAmount + totalItemHeight]
     ELSE [pushed |-> FALSE, push |-> 0,
           marginTop |-> g.mt,
           currentY |-> y + totalItemHeight]

\* Variant of TetrisItem: the margin is written back in both branches.
TetrisItemAlwaysWrites(y, g) ==
  LET totalItemHeight == g.h + g.mt + g.mb
      endPosition == y + totalItemHeight
      currentPageIndex == y \div PAGE_CONTENT_HEIGHT
      endPageIndex == endPosition \div PAGE_CONTENT_HEIGHT
      remainingSpaceOnPage == ((currentPageIndex + 1) * PAGE_CONTENT_HEIGHT) - y
      pushDownAmount == remainingSpaceOnPage + TOP_PAD
  IN IF currentPageIndex # endPageIndex
     THEN [pushed |-> TRUE, push |-> pushDownAmount,
           marginTop |-> g.mt + pushDownAmount,
           currentY |-> y + pushDownAmount + totalItemHeight]
     ELSE [pushed |-> TRUE, push |-> 0,
           marginTop |-> g.mt,
           currentY |-> y + totalItemHeight]

\* Variant of TetrisItem: a block taller than a page is left where it is.
TetrisItemSkipOversized(y, g) ==
  LET totalItemHeight == g.h + g.mt + g.mb
      endPosition == y + totalItemHeight
      currentPageIndex == y \div PAGE_CONTENT_HEIGHT
      endPageIndex == endPosition \div PAGE_CONTENT_HEIGHT
      remainingSpaceOnPage == ((currentPageIndex + 1) * PAGE_CONTENT_HEIGHT) - y
      pushDownAmount == remainingSpaceOnPage + TOP_PAD
  IN IF currentPageIndex # endPageIndex /\ totalItemHeight <= PAGE_CONTENT_HEIGHT
     THEN [pushed |-> TRUE, push |-> pushDownAmount,
           marginTop |-> g.mt + pushDownAmount,
           currentY |-> y + pushDownAmount + totalItemHeight]
     ELSE [pushed |-> FALSE, push |-> 0,
           marginTop |-> g.mt,
           currentY |-> y + totalItemHeight]

\* Variant of TetrisItem: a block is also pushed when less than the top pad would stay free below it.
TetrisItemEagerPush(y, g) ==
  LET totalItemHeight == g.h + g.mt + g.mb
      endPosition == y + totalItemHeight
      currentPageIndex == y \div PAGE_CONTENT_HEIGHT
      endPageIndex == endPosition \div PAGE_CONTENT_HEIGHT
      remainingSpaceOnPage == ((currentPageIndex + 1) * PAGE_CONTENT_HEIGHT) - y
      pushDownAmount == remainingSpaceOnPage + TOP_PAD
  IN IF currentPageIndex # endPageIndex \/ remainingSpaceOnPage < totalItemHeight + TOP_PAD
     THEN [pushed |-> TRUE, push |-> pushDownAmount,
           marginTop |-> g.mt + pushDownAmount,
           currentY |-> y + pushDownAmount + totalItemHeight]
     ELSE [pushed |-> FALSE, push |-> 0,
           marginTop |-> g.mt,
           currentY |-> y + totalItemHeight]

\* Variant of TetrisItem: a block that ends exactly on a boundary counts as fitting.
TetrisItemEndExclusive(y, g) ==
  LET totalItemHeight == g.h + g.mt + g.mb
      endPosition == y + totalItemHeight
      currentPageIndex == y \div PAGE_CONTENT_HEIGHT
      endPageIndex == Max2(endPosition - 1, 0) \div PAGE_CONTENT_HEIGHT
      remainingSpaceOnPage == ((currentPageIndex + 1) * PAGE_CONTENT_HEIGHT) - y
      pushDownAmount == remainingSpaceOnPage + TOP_PAD
  IN IF currentPageIndex # endPageIndex
     THEN [pushed |-> TRUE, push |-> pushDownAmount,
           marginTop |-> g.mt + pushDownAmount,
           currentY |-> y + pushDownAmount + totalItemHeight]
     ELSE [pushed |-> FALSE, push |-> 0,
           marginTop |-> g.mt,
           currentY |-> y + totalItemHeight]

\* The body of items.forEach for one item measured as g, with the cursor at y.
TetrisItem(y, g) ==
  LET totalItemHeight == g.h + g.mt + g.mb
      endPosition == y + totalItemHeight
      currentPageIndex == y \div PAGE_CONTENT_HEIGHT
      endPageIndex == endPosition \div PAGE_CONTENT_HEIGHT
      remainingSpaceOnPage == ((currentPageIndex + 1) * PAGE_CONTENT_HEIGHT) - y
      pushDownAmount == remainingSpaceOnPage + TOP_PAD
  IN IF currentPageIndex # endPageIndex
     THEN [pushed |-> TRUE, push |-> pushDownAmount,
           marginTop |-> g.mt + pushDownAmount,
           currentY |-> y + pushDownAmount + totalItemHeight]
     ELSE [pushed |-> FALSE, push |-> 0,
           marginTop |-> g.mt,
           currentY |-> y + totalItemHeight]


\* ------------------------------------------------------------------- state
VARIABLES
  isGeneratingPdf,  \* [Views -> BOOLEAN]: the useState flag of each view
                    \* (App.tsx:180, ConsolidatedStudentView.tsx:39)
  body,             \* exports whose staging container is a child of
                    \* document.body (App.tsx:221, 329)
  exports,          \* [Exports -> record]: every invocation of a handler
  nextExport,       \* the next invocation's number
  items,            \* TetrisSpec: geometry of the clone's .pdf-item blocks
  headerHeight,     \* TetrisSpec: offsetHeight of the header, 0 if absent
  idx,              \* TetrisSpec: the item the next forEach callback gets
  currentY,         \* TetrisSpec: the cursor
  starts,           \* TetrisSpec: the cursor before each processed item
  pushes,           \* TetrisSpec: pushDownAmount of each processed item, 0 if none
  marginTops,       \* TetrisSpec: el.style.marginTop written per item, -1 if none
  cuts,             \* TetrisSpec: the slicer's pages for the paginated clone
  tpc,              \* TetrisSpec: "loop" | "sliced"
  viewport,         \* TetrisSpec: the window when clone.scrollHeight is read
  fullHeight,       \* TetrisSpec: clone.scrollHeight (App.tsx:314)
  measured,         \* TetrisSpec: the (height, marginTop, marginBottom) read for each item
  name,             \* NameSpec: student.name, a sequence of characters
  safeName,         \* NameSpec: the filename token (App.tsx:360)
  npc,              \* NameSpec: "start" | "done"
  canvas,           \* SlicerSpec: [height, width] of the captured canvas
  heightLeft,       \* SlicerSpec: the slicer's heightLeft (App.tsx:345)
  position,         \* SlicerSpec: the slicer's position (App.tsx:346)
  pdfPages,         \* SlicerSpec: upward shift of the image on each pdf page
  spc,              \* SlicerSpec: "start" | "loop" | "done"
  dview,            \* StagingSpec: the view whose handler runs
  engine,           \* StagingSpec: what getComputedStyle gives for a detached element
  live,             \* StagingSpec: the on-screen report subtree
  clone,            \* StagingSpec: element.cloneNode(true) and its mutations
  attached,         \* StagingSpec: the clone is in the container, in the document
  rendered,         \* StagingSpec: text colour of each element on the canvas
  dpc               \* StagingSpec: position of the handler

exportVars == <<isGeneratingPdf, body, exports, nextExport>>
tetrisVars == <<items, headerHeight, idx, currentY, starts, pushes, marginTops, cuts, tpc,
                viewport, fullHeight, measured>>
nameVars == <<name, safeName, npc>>
slicerVars == <<canvas, heightLeft, position, pdfPages, spc>>
stagingVars == <<dview, engine, live, clone, attached, rendered, dpc>>
vars == <<isGeneratingPdf, body, exports, nextExport,
          items, headerHeight, idx, currentY, starts, pushes, marginTops, cuts, tpc,
          viewport, fullHeight, measured, name, safeName, npc,
          canvas, heightLeft, position, pdfPages, spc,
          dview, engine, live, clone, attached, rendered, dpc>>

Exports == 1..MaxExports

\* stages: the stages the handler has entered, in order.
\* pc: "unborn" not invoked yet | "settle" awaiting the setTimeout promise |
\*     "capture" awaiting html2canvas | "done" the handler has returned.
NoExport ==
  [pc |-> "unborn", view |-> "none", outcome |-> "none", failed |-> "none",
   fullHeight |-> 0, pages |-> <<>>, saves |-> 0, savedDoc |-> <<>>,
   alerts |-> 0, escaped |-> FALSE, stages |-> <<>>]

\* Stages of the synchronous part of each handler in which a call can throw
\* while the container is already attached to the body.
SyncStages(v) == IF v = "report" THEN {"staging", "measurement"} ELSE {"staging"}

\* Variant of SyncPart: both handlers run the pagination pass.
SyncPartPaginatesAll(v) == IF v \in Views THEN <<"staging", "pagination">> ELSE <<>>

\* The stages of the synchronous part of each handler, up to the settle wait.
\* "pagination" is the one pass of items.forEach, which measures a block and
\* writes its margin before it measures the next block (TetrisSpec); the
\* consolidated handler has no such pass.
SyncPart(v) == IF v = "report" THEN <<"staging", "pagination">> ELSE <<"staging">>

ExportInit ==
  /\ isGeneratingPdf = [v \in Views |-> FALSE]
  /\ body = {}
  /\ exports = [e \in Exports |-> NoExport]
  /\ nextExport = 1

TetrisIdle ==
  /\ items = <<>>
  /\ headerHeight = 0
  /\ idx = 1
  /\ currentY = 0
  /\ starts = <<>>
  /\ pushes = <<>>
  /\ marginTops = <<>>
  /\ cuts = <<>>
  /\ tpc = "loop"
  /\ viewport = NoViewport
  /\ fullHeight = 0
  /\ measured = <<>>

NameIdle ==
  /\ name = <<>>
  /\ safeName = <<>>
  /\ npc = "start"

SlicerIdle ==
  /\ canvas = [height |-> 0, width |-> 0]
  /\ heightLeft = 0
  /\ position = 0
  /\ pdfPages = <<>>
  /\ spc = "start"

\* A subtree: its root and its descendant elements.  kind: where the text
\* colour of the element comes from; color, marginTop: its inline style.
NoTree == [root |-> [screenClasses |-> FALSE, inlineStyle |-> FALSE], els |-> <<>>]

StagingIdle ==
  /\ dview = "none"
  /\ engine = "none"
  /\ live = NoTree
  /\ clone = NoTree
  /\ attached = FALSE
  /\ rendered = <<>>
  /\ dpc = "start"

Init == ExportInit /\ TetrisIdle /\ NameIdle /\ SlicerIdle /\ StagingIdle

\* ------------------------------------------------------- handler fragments
\* Mutant of TriggerEnabled: the button without its disabled attribute.
TriggerAlwaysEnabled(v) == v \in Views

\* <button onClick={...} disabled={isGeneratingPdf}>
TriggerEnabled(v) == ~isGeneratingPdf[v]

\* Mutant of Catch: the error is logged but no alert is shown.
CatchSilent(x, stage) ==
  [x EXCEPT !.pc = "done", !.outcome = "failed", !.failed = stage]

\* Mutant of Catch: the catch block saves whatever the pdf holds.
CatchSavesPartial(x, stage) ==
  [x EXCEPT !.pc = "done", !.outcome = "failed", !.failed = stage,
            !.alerts = @ + 1, !.saves = @ + 1, !.savedDoc = x.pages]

\* catch (error) { console.error(error); alert("Erro ao gerar PDF."); }
Catch(x, stage) ==
  [x EXCEPT !.pc = "done", !.outcome = "failed", !.failed = stage,
            !.alerts = @ + 1]

\* Mutant of Finally: the flag is not reset.
FinallyKeepsFlag(flags, v) == [flags EXCEPT ![v] = flags[v]]

\* finally { setIsGeneratingPdf(false); }
Finally(flags, v) == [flags EXCEPT ![v] = FALSE]

\* pdf.save(...), the last statement of the try block
Save(x) ==
  [x EXCEPT !.pc = "done", !.outcome = "saved", !.saves = @ + 1,
            !.savedDoc = x.pages, !.stages = Append(@, "file")]

\* Variant of Return: the early return shows the failure alert.
ReturnWithAlert(x, why) == [x EXCEPT !.pc = "done", !.outcome = why, !.alerts = @ + 1]

\* An early return: the handler ends without staging anything.
Return(x, why) == [x EXCEPT !.pc = "done", !.outcome = why]

\* Variant of SetBusy: the flag is left as it is.
SetBusyNever(flags, v) == [flags EXCEPT ![v] = flags[v]]

\* setIsGeneratingPdf(true)
SetBusy(flags, v) == [flags EXCEPT ![v] = TRUE]

\* Variant of Suspend: html2canvas is called without the settle wait.
SuspendSkipsWait(x, v) ==
  [x EXCEPT !.pc = "capture", !.stages = SyncPart(v) \o <<"capture">>]

\* await new Promise(resolve => setTimeout(resolve, ...)) at the end of the
\* synchronous part: the handler is suspended until the timer fires.
Suspend(x, v) ==
  [x EXCEPT !.pc = "settle", !.stages = SyncPart(v) \o <<"settle">>]

\* ----------------------------------------------------------------- actions
\* The click on the download button of view v: the handler runs up to its
\* first await.  hasData: reportData is not null (report view only);
\* found: the live report element exists; thrown: the stage that throws.
\* The pagination loop of the report view writes only margins of the clone
\* and the local currentY, which nothing reads after the loop (TetrisSpec).
Click(v) ==
  /\ nextExport <= MaxExports
  /\ TriggerEnabled(v)
  /\ LET e == nextExport
         x == [NoExport EXCEPT !.view = v]
     IN \E hasData \in BOOLEAN, found \in BOOLEAN,
           thrown \in SyncStages(v) \cup {"none"} :
          /\ v = "consolidated" => hasData
          /\ nextExport' = e + 1
          /\ IF ~hasData
             THEN \* if (!reportData) return;
                  /\ exports' = [exports EXCEPT ![e] = Return(x, "nodata")]
                  /\ UNCHANGED <<isGeneratingPdf, body>>
             ELSE IF ~found
             THEN \* setIsGeneratingPdf(true); ... if (!element) return;
                  /\ exports' = [exports EXCEPT ![e] = Return(x, "noelement")]
                  /\ isGeneratingPdf' = Finally(SetBusy(isGeneratingPdf, v), v)
                  /\ UNCHANGED body
             ELSE IF thrown # "none"
             THEN \* document.body.appendChild(container); ... throw
                  /\ body' = body \cup {e}
                  /\ exports' = [exports EXCEPT ![e] =
                         Catch([x EXCEPT !.stages = IF thrown = "staging" THEN <<"staging">>
                                                    ELSE SyncPart(v)], thrown)]
                  /\ isGeneratingPdf' = Finally(SetBusy(isGeneratingPdf, v), v)
             ELSE \* ... await new Promise(resolve => setTimeout(resolve, ...))
                  /\ body' = body \cup {e}
                  /\ exports' = [exports EXCEPT ![e] = Suspend(x, v)]
                  /\ isGeneratingPdf' = SetBusy(isGeneratingPdf, v)
  /\ UNCHANGED <<tetrisVars, nameVars, slicerVars, stagingVars>>

\* The settle timer fires: the height of the clone is read and html2canvas
\* is called.
TimerFire(e) ==
  /\ exports[e].pc = "settle"
  /\ \E h \in ScrollHeights :
       exports' = [exports EXCEPT ![e] = [@ EXCEPT !.pc = "capture", !.fullHeight = h,
                                                   !.stages = Append(@, "capture")]]
  /\ UNCHANGED <<isGeneratingPdf, body, nextExport>>
  /\ UNCHANGED <<tetrisVars, nameVars, slicerVars, stagingVars>>

\* html2canvas resolves: the container is removed, the canvas is sliced into
\* the pdf and the pdf is saved.  k pages are added before toDataURL, addImage
\* or addPage throws: none, or all but the last; k = the number of pages:
\* nothing throws.
CaptureResolve(e) ==
  /\ exports[e].pc = "capture"
  /\ LET v == exports[e].view
         all == SlicerOf(v, exports[e].fullHeight * scale, StageWidth(v) * scale)
     IN \E k \in {0, Len(all) - 1, Len(all)} :
          /\ body' = body \ {e}
          /\ exports' =
               IF k < Len(all)
               THEN [exports EXCEPT ![e] = Catch([@ EXCEPT !.pages = SubSeq(all, 1, k),
                                                             !.stages = Append(@, "slicer")], "slicing")]
               ELSE [exports EXCEPT ![e] = Save([@ EXCEPT !.pages = all,
                                                            !.stages = Append(@, "slicer")])]
          /\ isGeneratingPdf' = Finally(isGeneratingPdf, v)
  /\ UNCHANGED nextExport
  /\ UNCHANGED <<tetrisVars, nameVars, slicerVars, stagingVars>>

\* html2canvas rejects: control goes to the catch block, past removeChild.
CaptureReject(e) ==
  /\ exports[e].pc = "capture"
  /\ exports' = [exports EXCEPT ![e] = Catch(@, "capture")]
  /\ isGeneratingPdf' = Finally(isGeneratingPdf, exports[e].view)
  /\ UNCHANGED <<body, nextExport>>
  /\ UNCHANGED <<tetrisVars, nameVars, slicerVars, stagingVars>>

Clicks == \E v \in Views : Click(v)
Timers == \E e \in Exports : TimerFire(e)
Resolves == \E e \in Exports : CaptureResolve(e)
Rejects == \E e \in Exports : CaptureReject(e)

Next == Clicks \/ Timers \/ Resolves \/ Rejects

Spec == Init /\ [][Next]_vars

\* The timer of a pending setTimeout fires and the html2canvas promise settles.
FairSpec ==
  /\ Spec
  /\ \A e \in Exports : WF_vars(TimerFire(e))
  /\ \A e \in Exports : WF_vars(CaptureResolve(e) \/ CaptureReject(e))

\* -------------------------------------------------------------- TetrisSpec
\* let currentY = 0; if (header) currentY += header.offsetHeight;
\* Variant of HeaderOffset: the header is not counted.
HeaderOffsetIgnored(h) == 0 * h

\* let currentY = 0; if (header) currentY += header.offsetHeight;
\* h is 0 when querySelector finds no header.
HeaderOffset(h) == 0 + h

\* getComputedStyle(el).marginTop of item i of the clone: the margin of its
\* class, or the inline margin once the loop has written one.
ComputedMarginTop(i) ==
  IF i <= Len(marginTops) /\ marginTops[i] # -1 THEN marginTops[i] ELSE items[i].mt

\* Variant of Measure: the top margin is read as the collapsed distance to the
\* block before.
MeasureUsedMargins(i) ==
  [h |-> items[i].h,
   mt |-> IF i > 1 THEN Max2(items[i - 1].mb, ComputedMarginTop(i)) ELSE ComputedMarginTop(i),
   mb |-> items[i].mb]

\* el.offsetHeight, parseFloat(styles.marginTop) || 0,
\* parseFloat(styles.marginBottom) || 0 of item i, read when the loop reaches it.
Measure(i) == [h |-> items[i].h, mt |-> ComputedMarginTop(i), mb |-> items[i].mb]

TetrisInit ==
  /\ ExportInit
  /\ NameIdle
  /\ SlicerIdle
  /\ StagingIdle
  /\ viewport = NoViewport
  /\ fullHeight = 0
  /\ measured = <<>>
  /\ items \in SeqsUpTo(Items, MaxBlocks) \cup SeqsUpTo(BoundaryItems, MaxBoundaryBlocks)
  /\ headerHeight \in HeaderHeights
  /\ idx = 1
  /\ currentY = HeaderOffset(headerHeight)
  /\ starts = <<>>
  /\ pushes = <<>>
  /\ marginTops = <<>>
  /\ cuts = <<>>
  /\ tpc = "loop"

\* One callback of items.forEach.
ForEachItem ==
  /\ tpc = "loop"
  /\ idx <= Len(items)
  /\ LET r == TetrisItem(currentY, Measure(idx))
     IN /\ currentY' = r.currentY
        /\ measured' = Append(measured, Measure(idx))
        /\ starts' = Append(starts, currentY)
        /\ pushes' = Append(pushes, r.push)
        /\ marginTops' = Append(marginTops, IF r.pushed THEN r.marginTop ELSE -1)
  /\ idx' = idx + 1
  /\ UNCHANGED <<items, headerHeight, cuts, tpc, viewport, fullHeight>>
  /\ UNCHANGED <<exportVars, nameVars, slicerVars, stagingVars>>

\* ------------------------------------------------------- layout of the clone
\* The clone is a block box (its 'flex' class is removed, App.tsx:227) holding
\* the header, then the p-8 wrapper, then the report card (padding, border,
\* min-h-[500px]) around the .pdf-item blocks in normal flow; the footer is
\* .no-print and removed.  The margin-top of an item is its class's margin
\* or, once the loop has written it, el.style.marginTop.
EffMarginTop(i) == IF marginTops[i] = -1 THEN items[i].mt ELSE marginTops[i]

\* Height of the flow of the items from item i on: adjoining margins of
\* siblings collapse to the larger one.
RECURSIVE FlowFrom(_)
FlowFrom(i) ==
  IF i > Len(items) THEN 0
  ELSE items[i].h
       + (IF i < Len(items) THEN Max2(items[i].mb, EffMarginTop(i + 1)) ELSE items[i].mb)
       + FlowFrom(i + 1)

FlowHeight == IF items = <<>> THEN 0 ELSE EffMarginTop(1) + FlowFrom(1)

\* clone.scrollHeight in a window vp.  'min-h-screen md:min-h-0' stays on the
\* clone: below the md breakpoint the clone is at least 100vh tall.
ScrollHeight(vp) ==
  LET md == vp.w >= MD_MIN_WIDTH
      cardPad == IF md THEN CARD_PAD_MD ELSE CARD_PAD_SMALL
      card == Max2(CARD_MIN_HEIGHT, FlowHeight + 2 * cardPad + 2 * CARD_BORDER)
      natural == headerHeight + 2 * WRAPPER_PAD + card
  IN IF md THEN natural ELSE Max2(vp.vh, natural)

\* After the loop and the settle wait: fullHeight = clone.scrollHeight, the
\* capture at scale 2 and width 794 with height fullHeight, then the slicer.
SliceClone ==
  /\ tpc = "loop"
  /\ idx > Len(items)
  /\ \E vp \in Viewports :
       /\ viewport' = vp
       /\ fullHeight' = ScrollHeight(vp)
       /\ cuts' = Slicer(ScrollHeight(vp) * scale, StageWidth("report") * scale)
  /\ tpc' = "sliced"
  /\ UNCHANGED <<items, headerHeight, idx, currentY, starts, pushes, marginTops, measured>>
  /\ UNCHANGED <<exportVars, nameVars, slicerVars, stagingVars>>

TetrisNext == ForEachItem \/ SliceClone

TetrisSpec == TetrisInit /\ [][TetrisNext]_vars

\* ================================================================== claims
Total(g) == g.h + g.mt + g.mb
\* Where processed item i was placed: the cursor after its push, and the end
\* of its height and margins.
AdjustedStartY(i) == starts[i] + pushes[i]
AdjustedEndY(i) == AdjustedStartY(i) + Total(items[i])
\* A height of the staged document (px) as a length on the pdf page, over the
\* same denominator as the slicer's offsets (canvas.width = 794 * scale).
PxToPage(y) == y * scale * pdfWidth

C2_NoStraddle ==
  \A i \in 1..Len(starts) :
    Total(items[i]) <= PAGE_CONTENT_HEIGHT =>
      AdjustedStartY(i) \div PAGE_CONTENT_HEIGHT = AdjustedEndY(i) \div PAGE_CONTENT_HEIGHT

\* C3: once an export has finished, successfully or not, its staging
\* container is no longer attached to the document body.
C3_ContainerRemoved ==
  \A e \in Exports : exports[e].pc = "done" => e \notin body

\* The image height and the page height of export e's pdf, over canvas.width.
ImgHeightOf(e) == exports[e].fullHeight * scale * pdfWidth
PageHeightOf(e) == pdfHeight * StageWidth(exports[e].view) * scale
CeilDiv(a, b) == (a + b - 1) \div b
InProgress(v) == {e \in Exports : exports[e].view = v /\ exports[e].pc \in {"settle", "capture"}}

\* C4: whenever a view's busy flag is set it is eventually reset, whether the
\* export succeeds, fails or returns early.
C4_BusyEventuallyReset ==
  \A v \in Views : isGeneratingPdf[v] ~> ~isGeneratingPdf[v]

\* C4 witness: an export that was suspended with the flag set has failed at
\* capture and the flag of its view is false again.
C4_Witness ==
  \E e \in Exports :
    /\ exports[e].failed = "capture"
    /\ ~isGeneratingPdf[exports[e].view]
    /\ InProgress(exports[e].view) = {}

\* C5: an export saves its file at most once, only when no stage failed and
\* with pages that reach the bottom of the image; a failed export saves nothing.
C5_NoPartialOutput ==
  \A e \in Exports :
    LET x == exports[e]
    IN /\ x.saves <= 1
       /\ x.saves = 1 =>
            /\ x.pc = "done"
            /\ x.failed = "none"
            /\ x.savedDoc = x.pages
            /\ x.savedDoc # <<>>
            /\ x.savedDoc[Len(x.savedDoc)] + PageHeightOf(e) >= ImgHeightOf(e)
       /\ x.saves = 0 => x.savedDoc = <<>>
       /\ x.failed # "none" => x.saves = 0

\* C5 witness: an export failed while slicing, after pages were added to the
\* pdf, and saved nothing.
C5_Witness ==
  \E e \in Exports :
    /\ exports[e].failed = "slicing"
    /\ Len(exports[e].pages) >= 2
    /\ exports[e].saves = 0

\* C6: at most one export of a view is in progress (suspended at the settle
\* wait or at rasterization) at any time.
C6_OneExportPerView ==
  \A v \in Views : Cardinality(InProgress(v)) <= 1

\* C6 witness: a second export of a view is in progress after the first one
\* of that view has run to completion.
C6_Witness ==
  \E e1, e2 \in Exports :
    /\ e1 # e2
    /\ exports[e1].view = exports[e2].view
    /\ exports[e1].outcome = "saved"
    /\ exports[e2].pc = "capture"

\* C7: the slicer produces exactly ceil(H / P) pages for a bitmap of scaled
\* height H > 0 and page height P; H = 1500, P = 297 gives 6 pages.
C7_PageCount ==
  /\ Len(Slicer(1500, pdfWidth)) = 6
  /\ \A e \in Exports :
       exports[e].outcome = "saved" =>
         Len(exports[e].savedDoc) = CeilDiv(ImgHeightOf(e), PageHeightOf(e))

\* C7 witness: a saved pdf whose image height is an exact multiple (7 times)
\* of the page height.
C7_Witness ==
  \E e \in Exports :
    /\ exports[e].outcome = "saved"
    /\ ImgHeightOf(e) = 7 * PageHeightOf(e)
    /\ Len(exports[e].savedDoc) = 7

\* C10: a finished export has shown exactly one alert if a stage of it failed
\* and none if it did not fail, and no exception left the handler.
C10_OneAlertPerFailure ==
  \A e \in Exports :
    exports[e].pc = "done" =>
      /\ ~exports[e].escaped
      /\ exports[e].failed # "none" => exports[e].alerts = 1
      /\ exports[e].failed = "none" => exports[e].alerts = 0

\* C10 witness: one export failed at capture and another one saved its file.
C10_Witness ==
  \E e1, e2 \in Exports :
    /\ exports[e1].failed = "capture"
    /\ exports[e1].alerts = 1
    /\ exports[e2].outcome = "saved"
    /\ exports[e2].alerts = 0

\* C8: a forEach callback never decreases currentY; it increases it by at
\* least the block's height: by exactly the block's total height when the
\* block fits, and by the push amount plus that total height when it is pushed.
C8_CursorMonotonic ==
  [][idx' = idx + 1 =>
       LET g == items[idx]
           U == PAGE_CONTENT_HEIGHT
           fits == currentY \div U = (currentY + Total(g)) \div U
           push == (currentY \div U + 1) * U - currentY + TOP_PAD
       IN /\ currentY' >= currentY
          /\ currentY' >= currentY + g.h
          /\ fits => currentY' = currentY + Total(g)
          /\ ~fits => currentY' = currentY + push + Total(g)]_vars

\* C8 witness: a block that fitted was followed by a block that was pushed.
C8_Witness ==
  /\ Len(pushes) >= 2
  /\ pushes[1] = 0
  /\ pushes[2] > 0
  /\ currentY = starts[2] + pushes[2] + Total(items[2])

\* The scenario of C9: heights 300, 900, 200, no margins, no header, all
\* three blocks processed.
ScenarioItems ==
  <<[h |-> 300, mt |-> 0, mb |-> 0], [h |-> 900, mt |-> 0, mb |-> 0],
    [h |-> 200, mt |-> 0, mb |-> 0]>>
InScenario == items = ScenarioItems /\ headerHeight = 0 /\ idx = 4

\* C9 as stated: block 1 is not pushed, block 2 is pushed by 803 to 1103 and
\* ends at 2003, block 3 is not pushed and the final currentY is 2203.
C9_Scenario ==
  InScenario =>
    /\ pushes = <<0, 803, 0>>
    /\ AdjustedStartY(2) = 1103
    /\ AdjustedEndY(2) = 2003
    /\ currentY = 2203

\* C9 amended: block 1 is not pushed, block 2 is pushed by 803 to 1103 and
\* ends at 2003, block 3 (2003..2203 crosses 2126) is pushed by 163 to 2166
\* and the final currentY is 2366.
C9_ScenarioAmended ==
  InScenario =>
    /\ pushes = <<0, 803, 163>>
    /\ AdjustedStartY(2) = 1103
    /\ AdjustedEndY(2) = 2003
    /\ AdjustedStartY(3) = 2166
    /\ currentY = 2366

\* C9 witness: the scenario has been run to its end.
C9_Witness == InScenario /\ Len(pushes) = 3 /\ marginTops[2] = 803

\* ------------------------------------------------------- the filename token
\* Characters of a name, by class.  "U+00E3" stands for the one character
\* a-tilde; every other string is the character it shows.
LowerLetters == {"a", "j"}
UpperLetters == {"J"}
Digits == {"7"}
OtherChars == {" ", ".", "_", "U+00E3"}
NameChars == LowerLetters \cup UpperLetters \cup Digits \cup OtherChars

\* String.prototype.toLowerCase on one character of the alphabet.
ToLowerCase(c) == IF c = "J" THEN "j" ELSE c

\* The per-character map of a regex replace with '_'.
ReplaceChars(n, keep) == [i \in 1..Len(n) |-> IF n[i] \in keep THEN n[i] ELSE "_"]

\* Variant: the character class without the i flag.
SafeNameCaseSensitive(n) ==
  LET replaced == ReplaceChars(n, LowerLetters \cup Digits)
  IN [i \in 1..Len(replaced) |-> ToLowerCase(replaced[i])]

\* name.replace(/[^a-z0-9]/gi, '_').toLowerCase()
SafeName(n) ==
  LET replaced == ReplaceChars(n, LowerLetters \cup UpperLetters \cup Digits)
  IN [i \in 1..Len(replaced) |-> ToLowerCase(replaced[i])]

NameInit ==
  /\ ExportInit
  /\ TetrisIdle
  /\ SlicerIdle
  /\ StagingIdle
  /\ name \in SeqsUpTo(NameChars, MaxNameLen)
  /\ safeName = <<>>
  /\ npc = "start"

\* const safeName = ... ; pdf.save(`Relatorio_${safeName}.pdf`)
MakeSafeName ==
  /\ npc = "start"
  /\ safeName' = SafeName(name)
  /\ npc' = "done"
  /\ UNCHANGED name
  /\ UNCHANGED <<exportVars, tetrisVars, slicerVars, stagingVars>>

NameNext == MakeSafeName

NameSpec == NameInit /\ [][NameNext]_vars

\* C11 (as stated): for every name the filename token contains only lowercase
\* alphanumeric characters, the non-alphanumeric characters of the name being
\* stripped and the rest lowercased.
C11_TokenStripped ==
  npc = "done" =>
    /\ \A i \in 1..Len(safeName) : safeName[i] \in LowerLetters \cup Digits
    /\ safeName = [i \in 1..Len(SelectSeq(name, LAMBDA c : c \notin OtherChars)) |->
                     ToLowerCase(SelectSeq(name, LAMBDA c : c \notin OtherChars)[i])]

\* C11 (amended): the token has the length of the name; each alphanumeric
\* character is kept and lowercased, every other character is replaced by an
\* underscore, so the token holds only lowercase alphanumerics and underscores.
C11_TokenUnderscored ==
  npc = "done" =>
    /\ Len(safeName) = Len(name)
    /\ \A i \in 1..Len(name) :
         /\ name[i] \in LowerLetters \cup Digits => safeName[i] = name[i]
         /\ name[i] \in UpperLetters => safeName[i] \in LowerLetters /\ safeName[i] = ToLowerCase(name[i])
         /\ name[i] \in OtherChars => safeName[i] = "_"
    /\ \A i \in 1..Len(safeName) : safeName[i] \in LowerLetters \cup Digits \cup {"_"}

\* A name with an upper-case letter, a space and an accented letter was converted.
C11_Witness ==
  /\ npc = "done"
  /\ name = <<"J", " ", "U+00E3">>
  /\ safeName = <<"j", "_", "_">>

\* ------------------------------------------------- the cursor and the capture
RECURSIVE SumTotals(_)
SumTotals(n) == IF n = 0 THEN 0 ELSE Total(items[n]) + SumTotals(n - 1)

RECURSIVE SumPushes(_)
SumPushes(n) == IF n = 0 THEN 0 ELSE pushes[n] + SumPushes(n - 1)

RECURSIVE SumHeights(_)
SumHeights(n) == IF n = 0 THEN 0 ELSE items[n].h + SumHeights(n - 1)

LoopDone == idx > Len(items)

\* C12 (as stated): after the last block currentY is the header offset plus
\* every block's total height plus every push, and this value is the height
\* used for the capture.
C12_CursorIsCaptureHeight ==
  tpc = "sliced" =>
    /\ currentY = headerHeight + SumTotals(Len(items)) + SumPushes(Len(items))
    /\ fullHeight = currentY

\* C12 (amended): after the last block currentY is the header offset plus every
\* block's total height plus every push; the height used for the capture is
\* not read from currentY but is the clone's scrollHeight, which holds the
\* header, the blocks' heights and pushes and the padding and border of the
\* wrapper and the card around them.
C12_CursorSumCaptureScroll ==
  /\ LoopDone => currentY = headerHeight + SumTotals(Len(items)) + SumPushes(Len(items))
  /\ tpc = "sliced" =>
       /\ fullHeight = ScrollHeight(viewport)
       /\ fullHeight >= headerHeight + SumHeights(Len(items)) + SumPushes(Len(items))
                          + 2 * WRAPPER_PAD + 2 * CARD_PAD_SMALL + 2 * CARD_BORDER

\* Three blocks with margins, one of them pushed, were captured at a height
\* that differs from the cursor.
C12_Witness ==
  /\ tpc = "sliced"
  /\ Len(items) = 3
  /\ \E i \in 1..3 : pushes[i] > 0
  /\ \E i \in 1..3 : items[i].mt > 0
  /\ fullHeight # currentY

\* ------------------------------------------------------- order of the stages
IsPrefix(a, b) == Len(a) <= Len(b) /\ a = SubSeq(b, 1, Len(a))

\* The stages of a log under the names Staging, Measurement, Page-Break
\* Insertion, Capture, Slicer, file: the pagination pass counts as Measurement
\* followed by Page-Break Insertion, the settle wait as no stage.
RECURSIVE NamedStages(_)
NamedStages(log) ==
  IF log = <<>> THEN <<>>
  ELSE (CASE Head(log) = "pagination" -> <<"measurement", "pagebreak">>
          [] Head(log) = "settle" -> <<>>
          [] OTHER -> <<Head(log)>>) \o NamedStages(Tail(log))

Started == {e \in Exports : exports[e].pc # "unborn"}

\* C13 (as stated): in every export the stages run in the order Staging,
\* Measurement, Page-Break Insertion, Capture, Slicer, output file; none is
\* skipped and the file is written last.
C13_SixStages ==
  \A e \in Started :
    /\ IsPrefix(NamedStages(exports[e].stages),
                <<"staging", "measurement", "pagebreak", "capture", "slicer", "file">>)
    /\ exports[e].outcome = "saved" =>
         NamedStages(exports[e].stages)
           = <<"staging", "measurement", "pagebreak", "capture", "slicer", "file">>

\* C13 (amended): a report export runs Staging, the pagination pass, the settle
\* wait, Capture, Slicer, output file in this order; a consolidated export runs
\* Staging, the settle wait, Capture, Slicer, output file, with no measurement
\* and no page-break insertion.  An export never enters a stage out of this
\* order, an export that returns early enters none, and the file is written,
\* last, exactly by the exports that entered every stage of their order.
C13_StagesPerView ==
  \A e \in Started :
    LET order == IF exports[e].view = "report"
                 THEN <<"staging", "pagination", "settle", "capture", "slicer", "file">>
                 ELSE <<"staging", "settle", "capture", "slicer", "file">>
    IN /\ IsPrefix(exports[e].stages, order)
       /\ exports[e].outcome = "saved" <=> exports[e].stages = order
       /\ exports[e].saves > 0 => exports[e].stages[Len(exports[e].stages)] = "file"
       /\ exports[e].outcome \in {"nodata", "noelement"} => exports[e].stages = <<>>

\* A report export and a consolidated export have both been saved.
C13_Witness ==
  /\ \E e \in Exports : exports[e].view = "report" /\ exports[e].outcome = "saved"
                        /\ Len(exports[e].stages) = 6
  /\ \E e \in Exports : exports[e].view = "consolidated" /\ exports[e].outcome = "saved"
                        /\ Len(exports[e].stages) = 5

\* ------------------------------------------------------- the empty report
\* C14: the export of a report with zero content blocks produces a document
\* of exactly one page: the captured height is at most one page height.
C14_EmptyReportOnePage ==
  (tpc = "sliced" /\ items = <<>>) =>
    /\ Len(cuts) = 1
    /\ PxToPage(fullHeight) <= pdfHeight * StageWidth("report") * scale

\* ------------------------------------------------------- the push branch
StartPage(i) == starts[i] \div PAGE_CONTENT_HEIGHT
EndPage(i) == (starts[i] + Total(items[i])) \div PAGE_CONTENT_HEIGHT
Straddles(i) == StartPage(i) # EndPage(i)
\* The cursor after item i was processed.
CursorAfter(i) == IF i < Len(starts) THEN starts[i + 1] ELSE currentY

C16_OnlyPushedMargins ==
  [][ /\ items' = items
      /\ Len(marginTops') \in {Len(marginTops), Len(marginTops) + 1}
      /\ SubSeq(marginTops', 1, Len(marginTops)) = marginTops
      /\ Len(marginTops') = Len(marginTops) + 1 =>
           /\ idx' = idx + 1
           /\ Len(marginTops') = idx
           /\ marginTops'[idx] = -1 <=>
                (currentY \div PAGE_CONTENT_HEIGHT
                   = (currentY + Total(items[idx])) \div PAGE_CONTENT_HEIGHT)
    ]_vars

\* The loop has finished on three blocks, of which one was pushed and another,
\* with margins of its own, was left alone.
C16_Witness ==
  /\ LoopDone
  /\ Len(items) = 3
  /\ \E i, j \in 1..3 :
       /\ marginTops[i] > 0
       /\ marginTops[j] = -1
       /\ items[j].mt > 0

ImgHeight == canvas.height * pdfWidth
PageH == pdfHeight * canvas.width

\* Canvases html2canvas can return: scale times the stage width of either
\* handler, scale times a captured height of some hundreds of px.
CanvasSizes ==
  {[height |-> scale * 100 * n, width |-> scale * StageWidth(v)] :
     n \in 1..MaxSliceHundreds, v \in Views}

\* Variant of NextPosition: half the distance.
NextPositionHalf(hl, img) == (hl - img) \div 2

\* position = heightLeft - imgHeight
NextPosition(hl, img) == hl - img

\* Variant of HeightLeftAfterPage: half a page is taken off.
HeightLeftAfterHalfPage(hl, pageH) == hl - pageH \div 2

\* heightLeft -= pdfHeight
HeightLeftAfterPage(hl, pageH) == hl - pageH

SlicerInit ==
  /\ ExportInit
  /\ TetrisIdle
  /\ NameIdle
  /\ StagingIdle
  /\ canvas \in CanvasSizes
  /\ heightLeft = 0
  /\ position = 0
  /\ pdfPages = <<>>
  /\ spc = "start"

\* let heightLeft = imgHeight; let position = 0;
\* pdf.addImage(imgData, 'JPEG', 0, position, pdfWidth, imgHeight);
\* heightLeft -= pdfHeight;
SlicerFirstPage ==
  /\ spc = "start"
  /\ position' = 0
  /\ pdfPages' = <<0>>
  /\ heightLeft' = HeightLeftAfterPage(ImgHeight, PageH)
  /\ spc' = "loop"
  /\ UNCHANGED canvas
  /\ UNCHANGED <<exportVars, tetrisVars, nameVars, stagingVars>>

\* One pass of the body of while (heightLeft > 0): the image is put on a
\* new page at y = position, that is, shifted upward by -position.
SlicerAddPage ==
  /\ spc = "loop"
  /\ heightLeft > 0
  /\ position' = NextPosition(heightLeft, ImgHeight)
  /\ pdfPages' = Append(pdfPages, 0 - position')
  /\ heightLeft' = HeightLeftAfterPage(heightLeft, PageH)
  /\ UNCHANGED <<canvas, spc>>
  /\ UNCHANGED <<exportVars, tetrisVars, nameVars, stagingVars>>

\* The test of the while loop fails.
SlicerExit ==
  /\ spc = "loop"
  /\ ~(heightLeft > 0)
  /\ spc' = "done"
  /\ UNCHANGED <<canvas, heightLeft, position, pdfPages>>
  /\ UNCHANGED <<exportVars, tetrisVars, nameVars, stagingVars>>

SlicerNext == SlicerFirstPage \/ SlicerAddPage \/ SlicerExit

SlicerSpec == SlicerInit /\ [][SlicerNext]_vars

\* The slicer is synchronous code: once started it runs until it returns.
FairSlicerSpec == SlicerSpec /\ WF_vars(SlicerNext)

\* C17: the slicer puts the image on page 1 at offset 0 and on the k-th added
\* page shifted upward by k * pageHeight, which is the image height minus the
\* height remaining at that iteration; so page k+1 shows the band from
\* k * pageHeight to (k + 1) * pageHeight, the bands are contiguous, disjoint
\* and increasing, and when the loop has ended they cover the image height
\* (the last page starts inside the image, the next would start past its end).
C17_BandsPartition ==
  LET n == Len(pdfPages)
  IN /\ spc # "start" =>
          /\ n >= 1
          /\ pdfPages[1] = 0
          /\ \A k \in 1..(n - 1) : pdfPages[k + 1] = k * PageH
          /\ \A k \in 1..(n - 1) : pdfPages[k + 1] = pdfPages[k] + PageH
          /\ heightLeft = ImgHeight - n * PageH
          /\ n > 1 => pdfPages[n] = ImgHeight - (heightLeft + PageH)
          /\ n > 1 => pdfPages[n] < ImgHeight
     /\ spc = "done" =>
          /\ n * PageH >= ImgHeight
          /\ pdfPages = Slicer(canvas.height, canvas.width)

\* The slicer has returned after it added at least three pages.
C17_Witness ==
  /\ spc = "done"
  /\ Len(pdfPages) >= 4
  /\ pdfPages[4] = 3 * PageH

\* C18: the slicer loop terminates for every image height: each iteration
\* takes pageHeight off heightLeft and runs only while heightLeft > 0, and the
\* loop exits at the first test that finds heightLeft <= 0.
C18_SlicerTerminates ==
  /\ <>(spc = "done")
  /\ [][ /\ (spc = "loop" /\ spc' = "loop") =>
              (heightLeft > 0 /\ heightLeft' = heightLeft - PageH /\ heightLeft' < heightLeft)
         /\ (spc = "loop" /\ spc' = "done") => heightLeft <= 0
         /\ (spc = "loop" /\ heightLeft <= 0) => spc' = "done"
       ]_vars

\* The loop has exited after three iterations, the last of which brought
\* heightLeft from a positive value to at most 0.
C18_Witness ==
  /\ spc = "done"
  /\ Len(pdfPages) = 4
  /\ heightLeft <= 0
  /\ heightLeft + PageH > 0

\* ------------------------------------------------------- greedy placement
\* A block of total height t placed at y lies inside a single page.
Inside(y, t) == y \div PAGE_CONTENT_HEIGHT = (y + t) \div PAGE_CONTENT_HEIGHT

\* The page boundary after y.
NextBoundary(y) == (y \div PAGE_CONTENT_HEIGHT + 1) * PAGE_CONTENT_HEIGHT

\* Final heights of the layouts of blocks i.. that start with the cursor at y,
\* keep the order, put each block either at the cursor or pad px below the next
\* page boundary, and leave every block inside a single page.
RECURSIVE InsideFinals(_, _, _)
InsideFinals(y, i, pad) ==
  IF i > Len(items) THEN {y}
  ELSE LET t == Total(items[i])
           b == NextBoundary(y) + pad
       IN (IF Inside(y, t) THEN InsideFinals(y + t, i + 1, pad) ELSE {})
          \cup (IF Inside(b, t) THEN InsideFinals(b + t, i + 1, pad) ELSE {})

AllFitAPage == \A i \in 1..Len(items) : Total(items[i]) <= PAGE_CONTENT_HEIGHT

\* C20 (as stated): for blocks each no taller than one usable page, the final
\* height that Page-Break Insertion produces is the minimum over all layouts
\* that keep the order, only insert blank space before blocks and leave every
\* block inside a single page; here: no such layout, with its pushed blocks
\* put right at a page boundary, is shorter.
C20_GreedyMinimal ==
  (LoopDone /\ AllFitAPage) =>
    \A f \in InsideFinals(headerHeight, 1, 0) : currentY <= f

AllFitBelowPad == \A i \in 1..Len(items) : Total(items[i]) + TOP_PAD < PAGE_CONTENT_HEIGHT

\* C20 (amended): for blocks each shorter than one usable page minus the 40 px
\* pad, the final height is the minimum over the layouts that keep the order,
\* put each block either directly after its predecessor or 40 px below the
\* next page boundary, and leave every block inside a single page.
C20_GreedyMinimalPadded ==
  (LoopDone /\ AllFitBelowPad) =>
    /\ currentY \in InsideFinals(headerHeight, 1, TOP_PAD)
    /\ \A f \in InsideFinals(headerHeight, 1, TOP_PAD) : currentY <= f

\* Three blocks that each fit a page were placed, one of them pushed, although
\* another layout of the padded kind is longer.
C20_Witness ==
  /\ LoopDone
  /\ Len(items) = 3
  /\ AllFitBelowPad
  /\ \E i \in 1..3 : pushes[i] > 0
  /\ \E f \in InsideFinals(headerHeight, 1, TOP_PAD) : f > currentY

\* ------------------------------------------------- waits, flag, early returns
\* Place of a stage in a log, 0 when the log does not hold it.
StagePos(log, st) ==
  IF \E i \in 1..Len(log) : log[i] = st
  THEN CHOOSE i \in 1..Len(log) : log[i] = st
  ELSE 0

\* C21: capture never starts before the settle wait that follows the last
\* page-break mutation has elapsed: in every export the pagination pass, which
\* holds every margin write, comes before the wait, the call of html2canvas
\* comes after it, and an export reaches the capture only from the wait, by
\* the step in which its timer fires.
C21_CaptureAfterSettle ==
  /\ [](\A e \in Started :
          StagePos(exports[e].stages, "capture") > 0 =>
            /\ StagePos(exports[e].stages, "settle") > 0
            /\ StagePos(exports[e].stages, "settle") < StagePos(exports[e].stages, "capture")
            /\ StagePos(exports[e].stages, "pagination") < StagePos(exports[e].stages, "settle"))
  /\ [][\A e \in Exports :
          (exports[e].pc # "capture" /\ exports'[e].pc = "capture") =>
            (exports[e].pc = "settle" /\ exports'[e].stages = Append(exports[e].stages, "capture"))
       ]_vars

\* A report export, after its pagination pass and its wait, is at the capture.
C21_Witness ==
  \E e \in Exports :
    /\ exports[e].pc = "capture"
    /\ exports[e].stages = <<"staging", "pagination", "settle", "capture">>

\* C22: block geometry is read only after the layout of the staged copy has
\* settled: in every export a settle wait lies between the attaching of the
\* clone and the pass that reads the blocks' heights and margins.
C22_SettleBeforeMeasurement ==
  \A e \in Started :
    \A i \in 1..Len(exports[e].stages) :
      exports[e].stages[i] = "pagination" =>
        \E j \in 1..(i - 1) : exports[e].stages[j] = "settle"

\* C28: an export that does not find the live report element ends with the
\* busy flag false, with no staging container, no alert and no file; an
\* export of the report view without report data ends likewise and leaves the
\* busy flag untouched.
C28_EarlyReturns ==
  /\ [](\A e \in Started :
          exports[e].outcome \in {"noelement", "nodata"} =>
            /\ exports[e].pc = "done"
            /\ e \notin body
            /\ exports[e].alerts = 0
            /\ exports[e].saves = 0
            /\ exports[e].stages = <<>>
            /\ exports[e].outcome = "nodata" => exports[e].view = "report")
  /\ [][\A e \in Exports :
          /\ (exports[e].pc = "unborn" /\ exports'[e].outcome = "noelement") =>
               (~isGeneratingPdf'[exports'[e].view] /\ body' = body)
          /\ (exports[e].pc = "unborn" /\ exports'[e].outcome = "nodata") =>
               (isGeneratingPdf' = isGeneratingPdf /\ body' = body)
       ]_vars

\* One export returned for want of report data and another for want of the
\* live element.
C28_Witness ==
  /\ \E e \in Exports : exports[e].outcome = "nodata"
  /\ \E e \in Exports : exports[e].outcome = "noelement" /\ exports[e].view = "consolidated"
  /\ \A v \in Views : ~isGeneratingPdf[v]

\* C29: the busy flag of a view is true for the whole duration of an export:
\* it is true whenever an export of the view is suspended at the settle wait
\* or at the capture or has its container attached while running, and it goes
\* from true to false only in the step in which such an export ends.
C29_BusyWhileRunning ==
  /\ [](\A e \in Started :
          (exports[e].pc \in {"settle", "capture"}) =>
            (isGeneratingPdf[exports[e].view] /\ e \in body))
  /\ [][\A v \in Views :
          (isGeneratingPdf[v] /\ ~isGeneratingPdf'[v]) =>
            \E e \in Exports :
              /\ exports[e].view = v
              /\ exports[e].pc \in {"settle", "capture"}
              /\ exports'[e].pc = "done"
              /\ exports'[e].outcome \in {"saved", "failed"}
       ]_vars

\* Exports of both views are suspended, one at the wait and one at the capture.
C29_Witness ==
  \E e, f \in Exports :
    /\ exports[e].pc = "settle"
    /\ exports[f].pc = "capture"
    /\ exports[e].view # exports[f].view
    /\ isGeneratingPdf[exports[e].view]
    /\ isGeneratingPdf[exports[f].view]

\* ------------------------------------------------- header, measurement, test
\* C25: the cursor starts at the height of the header when the staged copy has
\* one and at 0 otherwise, so the page index of every block counts the header:
\* a first block that fits in usableHeight alone but not in usableHeight minus
\* the header height is pushed.
C25_CursorStartsAtHeader ==
  /\ idx = 1 => currentY = headerHeight
  /\ Len(starts) >= 1 =>
       /\ starts[1] = headerHeight
       /\ pushes[1] > 0 <=>
            (headerHeight \div PAGE_CONTENT_HEIGHT
               # (headerHeight + Total(items[1])) \div PAGE_CONTENT_HEIGHT)
       /\ (/\ Total(items[1]) < PAGE_CONTENT_HEIGHT
           /\ Total(items[1]) >= PAGE_CONTENT_HEIGHT - headerHeight) => pushes[1] > 0

\* Below a header of 120 px a first block of 1030 px, which fits a page of
\* 1063 px, was pushed.
C25_Witness ==
  /\ headerHeight = 120
  /\ Len(starts) >= 1
  /\ starts[1] = 120
  /\ Total(items[1]) = 1030
  /\ pushes[1] = 983

\* The tuples a measurement pass over the unmutated staged copy returns.
MeasurementPass == [i \in 1..Len(items) |-> [h |-> items[i].h, mt |-> items[i].mt, mb |-> items[i].mb]]

C27_PushIffPagesDiffer ==
  \A i \in 1..Len(starts) :
    /\ pushes[i] > 0 <=> Straddles(i)
    /\ marginTops[i] # -1 <=> Straddles(i)
    /\ (Total(items[i]) > 0 /\ (starts[i] + Total(items[i])) % PAGE_CONTENT_HEIGHT = 0)
         => pushes[i] > 0
    /\ (Total(items[i]) = 0 /\ starts[i] % PAGE_CONTENT_HEIGHT = 0) => pushes[i] = 0

\* Below a header of 120 px a block of zero height met the cursor on the
\* boundary 2126 and stayed, and the next block, ending on 3189, was pushed.
C27_Witness ==
  /\ headerHeight = 120
  /\ Len(starts) = 3
  /\ starts[2] = 2 * PAGE_CONTENT_HEIGHT
  /\ Total(items[2]) = 0
  /\ pushes[2] = 0
  /\ starts[3] + Total(items[3]) = 3 * PAGE_CONTENT_HEIGHT
  /\ pushes[3] > 0

\* ------------------------------------------------------- staging of the clone
Elems == 1..NumElems

\* Where the text colour of an element comes from: a dark colour class, a
\* white colour class of its own (text-white), or a white colour class that
\* applies under the 'dark' class of the document element (dark:text-white).
ColorKinds == {"dark", "ownWhite", "themeWhite"}

\* getComputedStyle of an element that is not in a document: an empty
\* declaration, or the style of the element resolved without the document.
Engines == {"empty", "unrooted"}

WHITE == "rgb(255, 255, 255)"

ElemStates == [kind : ColorKinds, noPrint : BOOLEAN, present : {TRUE},
               color : {""}, marginTop : {""}]

\* The report on screen: its root carries the screen classes, nothing has an
\* inline colour or margin.
LiveTrees ==
  {[root |-> [screenClasses |-> TRUE, inlineStyle |-> FALSE], els |-> f] :
     f \in [Elems -> ElemStates]}

\* The colour the style sheets give an element.
CssColor(el, inDocument) ==
  CASE el.kind = "ownWhite" -> WHITE
    [] el.kind = "themeWhite" -> IF inDocument THEN WHITE ELSE "rgb(55, 65, 81)"
    [] OTHER -> "rgb(55, 65, 81)"

\* The computed value of an inline colour.
InlineRgb(c) == IF c = "#111827" THEN "rgb(17, 24, 39)" ELSE "rgb(31, 41, 55)"

\* window.getComputedStyle(el).color
ComputedColor(el, inDocument, eng) ==
  IF ~inDocument /\ eng = "empty" THEN ""
  ELSE IF el.color # "" THEN InlineRgb(el.color)
  ELSE CssColor(el, inDocument)

\* The test of the colour pass of either handler on a computed colour:
\* style.color === 'rgb(255, 255, 255)' || style.color === '#ffffff', and
\* style.color && style.color.includes('255, 255, 255').
IsWhiteText(c) == c = WHITE \/ c = "#ffffff"

\* querySelectorAll('*').forEach: every element of the tree whose computed
\* colour is white gets the inline colour dark.
ColorFixed(tree, inDocument, eng, dark) ==
  [tree EXCEPT !.els =
     [e \in Elems |->
        IF tree.els[e].present /\ IsWhiteText(ComputedColor(tree.els[e], inDocument, eng))
        THEN [tree.els[e] EXCEPT !.color = dark]
        ELSE tree.els[e]]]

\* Variant of Paginated: the items are taken from the live element.
PaginatedLive(trees, pushed) ==
  [trees EXCEPT !.live.els =
     [e \in Elems |-> IF e \in pushed THEN [trees.live.els[e] EXCEPT !.marginTop = "pushed"]
                      ELSE trees.live.els[e]]]

\* items = clone.querySelectorAll('.pdf-item'); el.style.marginTop = ... for
\* the pushed ones.
Paginated(trees, pushed) ==
  [trees EXCEPT !.clone.els =
     [e \in Elems |-> IF e \in pushed THEN [trees.clone.els[e] EXCEPT !.marginTop = "pushed"]
                      ELSE trees.clone.els[e]]]

StagingInit ==
  /\ ExportInit
  /\ TetrisIdle
  /\ NameIdle
  /\ SlicerIdle
  /\ dview \in Views
  /\ engine \in Engines
  /\ live \in LiveTrees
  /\ clone = NoTree
  /\ attached = FALSE
  /\ rendered = <<>>
  /\ dpc = "start"

\* element.cloneNode(true), the removal of the screen classes and the inline
\* styles of the clone's root, the removal of the .no-print elements.
CloneAndClean ==
  /\ dpc = "start"
  /\ clone' = [root |-> [screenClasses |-> FALSE, inlineStyle |-> TRUE],
               els |-> [e \in Elems |->
                          IF live.els[e].noPrint THEN [live.els[e] EXCEPT !.present = FALSE]
                          ELSE live.els[e]]]
  /\ dpc' = "cloned"
  /\ UNCHANGED <<dview, engine, live, attached, rendered>>
  /\ UNCHANGED <<exportVars, tetrisVars, nameVars, slicerVars>>

\* The report handler's colour pass, which runs before container.appendChild(clone).
ColorFixBeforeAttach ==
  /\ dpc = "cloned"
  /\ dview = "report"
  /\ clone' = ColorFixed(clone, attached, engine, "#111827")
  /\ dpc' = "colored"
  /\ UNCHANGED <<dview, engine, live, attached, rendered>>
  /\ UNCHANGED <<exportVars, tetrisVars, nameVars, slicerVars>>

\* container.appendChild(clone)
AttachClone ==
  /\ dpc = (IF dview = "report" THEN "colored" ELSE "cloned")
  /\ attached' = TRUE
  /\ dpc' = "attached"
  /\ UNCHANGED <<dview, engine, live, clone, rendered>>
  /\ UNCHANGED <<exportVars, tetrisVars, nameVars, slicerVars>>

\* The report handler's pagination loop: the margins of the pushed items.
PageBreaks ==
  /\ dpc = "attached"
  /\ dview = "report"
  /\ \E pushed \in SUBSET {e \in Elems : clone.els[e].present} :
       LET r == Paginated([live |-> live, clone |-> clone], pushed)
       IN /\ live' = r.live
          /\ clone' = r.clone
  /\ dpc' = "paginated"
  /\ UNCHANGED <<dview, engine, attached, rendered>>
  /\ UNCHANGED <<exportVars, tetrisVars, nameVars, slicerVars>>

\* html2canvas renders a copy of the document; the consolidated handler's
\* onclone callback runs its colour pass on that copy; then the container is
\* removed from the body.
Rasterize ==
  /\ dpc = (IF dview = "report" THEN "paginated" ELSE "attached")
  /\ LET doc == IF dview = "consolidated" THEN ColorFixed(clone, TRUE, engine, "#1f2937")
                ELSE clone
     IN rendered' = [e \in Elems |->
                       IF doc.els[e].present THEN ComputedColor(doc.els[e], TRUE, engine)
                       ELSE "none"]
  /\ attached' = FALSE
  /\ dpc' = "captured"
  /\ UNCHANGED <<dview, engine, live, clone>>
  /\ UNCHANGED <<exportVars, tetrisVars, nameVars, slicerVars>>

StagingNext == CloneAndClean \/ ColorFixBeforeAttach \/ AttachClone \/ PageBreaks \/ Rasterize

StagingSpec == StagingInit /\ [][StagingNext]_vars

C24_LiveUntouched ==
  /\ [][live' = live]_vars
  /\ [](dpc # "start" =>
          /\ live \in LiveTrees
          /\ \A e \in Elems : live.els[e].marginTop = "" /\ live.els[e].color = "")

\* An export has captured a clone from which an element was removed and in
\* which a margin was written, while the live report still has both.
C24_Witness ==
  /\ dpc = "captured"
  /\ \E e \in Elems : ~clone.els[e].present /\ live.els[e].present
  /\ \E e \in Elems : clone.els[e].marginTop = "pushed" /\ live.els[e].marginTop = ""
  /\ clone.root # live.root

\* ------------------------------------------------------- the two call sites
\* What each handler does around the slicer.
HandlerConfig(v) ==
  IF v = "report"
  THEN [width |-> StageWidth(v), settleMs |-> 500,
        paginates |-> \E i \in 1..Len(SyncPart(v)) : SyncPart(v)[i] = "pagination",
        dateSuffix |-> FALSE, jpegQuality |-> 95, heightGiven |-> TRUE,
        colorPass |-> "before appendChild", dataGuard |-> TRUE,
        svgSized |-> FALSE, minHScreenRemoved |-> FALSE]
  ELSE [width |-> StageWidth(v), settleMs |-> 800,
        paginates |-> \E i \in 1..Len(SyncPart(v)) : SyncPart(v)[i] = "pagination",
        dateSuffix |-> TRUE, jpegQuality |-> 90, heightGiven |-> FALSE,
        colorPass |-> "onclone", dataGuard |-> FALSE,
        svgSized |-> TRUE, minHScreenRemoved |-> TRUE]

ConfigFields == DOMAIN HandlerConfig("report")

\* The fields in which the two handlers differ.
Differences == {f \in ConfigFields : HandlerConfig("report")[f] # HandlerConfig("consolidated")[f]}

\* For the bitmap of the state, the two slicers give the same pages.
SameSlices ==
  /\ canvas.width > 0 =>
       SlicerOf("report", canvas.height, canvas.width)
         = SlicerOf("consolidated", canvas.height, canvas.width)
  /\ spc = "done" => pdfPages = SlicerOf("consolidated", canvas.height, canvas.width)

=============================================================================
